---- MODULE Spec2Model ----
(***************************************************************************)
(* LifeLine: the hospital dashboard (stock cards, donation schedule), the  *)
(* organizer portal's upcoming-camp list, and the stores they call.        *)
(*                                                                         *)
(* The dashboard and the portal are modelled from their sources.  The      *)
(* stores live in lib/firestore, which is not among the sources: they are  *)
(* modelled from the interface the specification gives them (section 6):   *)
(* an inventory store with an atomic increment and a subscription, an      *)
(* appointment store with list, mark-completed and mark-no-show.           *)
(***************************************************************************)
EXTENDS Integers, Sequences, FiniteSets, TLC

(***************************************************************************)
(* Bounds of the model.                                                    *)
(***************************************************************************)
\* How many of the eight blood types the user acts on.
NumActiveTypes == 1
\* The "+" button of a stock card is not pressed at this displayed count.
MaxStock == 2
\* Calls to the stores that may be outstanding at the same time.
MaxPending == 2
\* Appointments of the venue.
NumAppts == 1
\* Complete / no-show calls issued for one appointment.
MaxCalls == 2
\* Largest count a stock card is rendered with.
MaxCount == 110
\* Length of the appointment list handed to the schedule view.
MaxList == 3
\* Length of the camp list the camp store returns.
MaxCamps == 3
MaxAuthEvents == 4
MaxPicks == 3

(***************************************************************************)
(* Strings.  A string is a sequence of one-character strings, so that      *)
(* toLowerCase, includes and the code-unit order of sort() are computed    *)
(* and not assumed.                                                        *)
(***************************************************************************)
toLowerCase(c) ==
    CASE c = "A" -> "a"
      [] c = "E" -> "e"
      [] c = "J" -> "j"
      [] c = "N" -> "n"
      [] OTHER -> c

\* String.prototype.toLowerCase
StrLower(s) == [i \in 1..Len(s) |-> toLowerCase(s[i])]

\* String.prototype.includes: term occurs in s at some offset.
StrIncludes(s, term) ==
    \E off \in 0..(Len(s) - Len(term)) :
        \A i \in 1..Len(term) : s[off + i] = term[i]

\* UTF-16 code units of the characters of an ISO date.
CharCode(c) ==
    CASE c = "-" -> 45
      [] c = "0" -> 48
      [] c = "1" -> 49
      [] c = "2" -> 50
      [] c = "3" -> 51
      [] c = "4" -> 52
      [] c = "5" -> 53
      [] c = "6" -> 54
      [] c = "7" -> 55
      [] c = "8" -> 56
      [] c = "9" -> 57

\* a < b as JavaScript compares two strings: by code unit, a proper prefix first.
StrLess(a, b) ==
    \E k \in 1..(Len(b)) :
        /\ \A i \in 1..(k - 1) : i <= Len(a) /\ a[i] = b[i]
        /\ \/ Len(a) = k - 1
           \/ (k <= Len(a) /\ CharCode(a[k]) < CharCode(b[k]))

\* a >= b on strings.
StrGeq(a, b) == ~StrLess(a, b)


(***************************************************************************)
(* Data of the dashboard.                                                  *)
(***************************************************************************)
\* The eight labels of the stock grid and of the card's select, in order.
BloodTypes == <<"A+", "A-", "B+", "B-", "AB+", "AB-", "O+", "O-">>

BloodTypeSet == {BloodTypes[i] : i \in 1..Len(BloodTypes)}

\* The labels the user presses buttons for and picks in the select.
ActiveTypes == {BloodTypes[i] : i \in 1..NumActiveTypes}

\* The policy threshold of "low stock".
LowThreshold == 5

Statuses == {"scheduled", "completed", "no-show"}

ApptIds == 1..NumAppts

\* ISO dates, as strings.
Date0530 == <<"2", "0", "2", "4", "-", "0", "5", "-", "3", "0">>
Date0601 == <<"2", "0", "2", "4", "-", "0", "6", "-", "0", "1">>
Date0602 == <<"2", "0", "2", "4", "-", "0", "6", "-", "0", "2">>
Date1231 == <<"2", "0", "2", "3", "-", "1", "2", "-", "3", "1">>

Jane == <<"J", "a", "n", "e">>
ANN == <<"A", "N", "N">>

\* The venue's bookings as the appointment store holds them at first: all
\* scheduled, later bookings not necessarily later in the list.
BookedName(i) == IF i % 2 = 1 THEN Jane ELSE ANN
BookedDate(i) == IF i % 2 = 1 THEN Date0601 ELSE Date0530

Booked ==
    [i \in ApptIds |->
        [id |-> i, donorName |-> BookedName(i), date |-> BookedDate(i),
         status |-> "scheduled"]]

NoInventory == [bloodStock |-> <<>>, found |-> FALSE]

(***************************************************************************)
(* The users of the auth service and the roles their profiles carry.       *)
(***************************************************************************)
Users == {"venue1", "org1"}

\* The null and the undefined of the language.
null == "null"
undefined == "undefined"

\* No user: the null the auth service delivers on sign-out.
NoUser == null

\* The role in the profile of a user.
RoleOf(user) == IF user = "venue1" THEN "hospital" ELSE "organizer"

(***************************************************************************)
(* Places on the map.  A latitude or longitude is a whole number of        *)
(* ten-thousandths of a degree.                                            *)
(***************************************************************************)
\* { lat: 40.7128, lng: -74.0060 }
NewYork == [lat |-> 407128, lng |-> -740060]

Places == {NewYork, [lat |-> 0, lng |-> 0], [lat |-> 515000, lng |-> -1200]}

CampDates == {Date1231, Date0530, Date0601, Date0602}


VARIABLES
    \* the stores
    storeStock,        \* inventory store: bloodStock of the venue's record
    storeAppts,        \* appointment store: the venue's appointments, in order
    campStore,         \* camp store: the camps, in order
    \* HospitalDashboard
    inventory,         \* useState(null): the last record pushed
    loading,           \* useState(true)
    appointments,      \* useState([])
    activeTab,         \* useState('stock')
    toast,             \* the last toast shown
    \* DonationSchedule
    view,              \* useState('active')
    search,            \* useState('')
    schedule,          \* what it renders: the date groups, in order
    \* calls of the dashboard that have not settled
    pendingUpdates,    \* updateHospitalStock calls, a bag of <<type, change>>
    pendingCompletes,  \* completeAppointment calls, a bag of <<id, type>>
    pendingNoShows,    \* markAppointmentNoShow calls, a bag of ids
    loadReqs,          \* getVenueAppointments calls not yet answered
    loadResps,         \* answers of getVenueAppointments not yet delivered
    completeCalls,     \* per appointment: completeAppointment calls issued so far
    \* StockCard
    cardCount,         \* the count prop
    cardStatus,        \* the status line it renders
    \* OrganizerPortal
    campData,          \* loadCamps: data, the list the last load got
    today,             \* loadCamps: today, as the last load computed it
    camps,             \* useState([])
    submitting,        \* useState(false): loading, the form is being submitted
    message,           \* useState(''): the line shown over the form
    addPending,        \* addDonationCamp calls that have not settled, by date
    campLoadReqs,      \* getDonationCamps calls that have not settled
    \* AuthProvider
    currentUser,       \* useState(null)
    userRole,          \* useState(null)
    authLoading,       \* useState(true): loading
    authPending,       \* callbacks waiting for getUserProfile, a bag of users
    authLast,          \* the auth state delivered last
    authEvents,        \* auth states delivered so far
    \* the life of the mounted dashboard
    mounted,           \* HospitalDashboard is mounted
    subs,              \* inventory subscriptions not yet unsubscribed
    \* LocationPickerMap inside the portal's form
    position,          \* useState({ lat: 40.7128, lng: -74.0060 }): the marker
    pickerAddress,     \* useState(''): address, shown under the map
    coordinates,       \* OrganizerPortal: useState({ lat, lng })
    address,           \* OrganizerPortal: useState(''), the form's address
    picks,             \* the places clicked, dragged to or searched, in order
    lookups,           \* indexes of picks whose reverse lookup has not settled
    deliveries         \* the onLocationSelect calls made, in order

storeVars == <<storeStock, storeAppts>>
dashVars == <<inventory, loading, appointments, activeTab, toast>>
schedVars == <<view, search, schedule>>
callVars == <<pendingUpdates, pendingCompletes, pendingNoShows, loadReqs,
              loadResps, completeCalls>>
cardVars == <<cardCount, cardStatus>>
campVars == <<campStore, campData, today, camps>>
authVars == <<currentUser, userRole, authLoading, authPending, authLast,
              authEvents>>
lifeVars == <<mounted, subs>>
mapVars == <<position, pickerAddress, coordinates, address, picks, lookups,
             deliveries>>
campCallVars == <<submitting, message, addPending, campLoadReqs>>
sessionVars == <<authVars, lifeVars, mapVars, campCallVars>>

vars == <<storeVars, dashVars, schedVars, callVars, cardVars, campVars,
          sessionVars>>


(***************************************************************************)
(* StockCard: what it derives from its count prop.                         *)
(***************************************************************************)
\* isLow with the threshold itself counted as low.
isLow_Inclusive(count) == count <= LowThreshold

isLow(count) == count < LowThreshold

isCritical(count) == count = 0

\* The status line: OUT OF STOCK, LOW STOCK or Units Available.
StockStatus(count) ==
    IF isCritical(count) THEN "critical"
    ELSE IF isLow(count) THEN "low"
    ELSE "normal"

\* disabled={count <= 0} of the "-" button.
MinusDisabled(count) == count <= 0

\* count={inventory.bloodStock[type] || 0}
CountOf(bloodStock, type) ==
    IF type \in DOMAIN bloodStock THEN bloodStock[type] ELSE 0

(***************************************************************************)
(* DonationSchedule: filter by view, filter by search, group by date,      *)
(* sort the dates.                                                         *)
(***************************************************************************)
matchesView(appt, v) ==
    LET isActive == appt.status = "scheduled"
    IN  IF v = "active" THEN isActive ELSE ~isActive

\* matchesSearch without the two toLowerCase calls.
matchesSearch_CaseSensitive(appt, term) == StrIncludes(appt.donorName, term)

matchesSearch(appt, term) ==
    StrIncludes(StrLower(appt.donorName), StrLower(term))

filteredAppointments(all, v) ==
    SelectSeq(all, LAMBDA appt : matchesView(appt, v))

displayAppointments(all, v, term) ==
    SelectSeq(filteredAppointments(all, v), LAMBDA appt : matchesSearch(appt, term))

\* The reduce: each date's appointments, in the order they are met.
grouped(display) ==
    [d \in {display[i].date : i \in 1..Len(display)} |->
        SelectSeq(display, LAMBDA appt : appt.date = d)]

RECURSIVE InsertSorted_Descending(_, _)
\* InsertSorted with the comparison turned round.
InsertSorted_Descending(seq, x) ==
    IF seq = <<>> THEN <<x>>
    ELSE IF StrLess(seq[1], x) THEN <<x>> \o seq
    ELSE <<seq[1]>> \o InsertSorted_Descending(Tail(seq), x)

RECURSIVE InsertSorted(_, _)
\* seq is sorted; x goes before the first element greater than it.
InsertSorted(seq, x) ==
    IF seq = <<>> THEN <<x>>
    ELSE IF StrLess(x, seq[1]) THEN <<x>> \o seq
    ELSE <<seq[1]>> \o InsertSorted(Tail(seq), x)

RECURSIVE SortKeys(_)
\* Array.prototype.sort() with no comparator, on a set of distinct keys.
SortKeys(keys) ==
    IF keys = {} THEN <<>>
    ELSE LET k == CHOOSE x \in keys : TRUE
         IN  InsertSorted(SortKeys(keys \ {k}), k)

sortedDates(groups) == SortKeys(DOMAIN groups)

\* The date groups DonationSchedule renders, top to bottom.
viewAppointments(all, v, term) ==
    LET groups == grouped(displayAppointments(all, v, term))
        dates == sortedDates(groups)
    IN  [i \in 1..Len(dates) |-> [date |-> dates[i], appts |-> groups[dates[i]]]]

\* The appointments that have a card on screen.
OnScreen(sched) ==
    UNION {{sched[g].appts[i] : i \in 1..Len(sched[g].appts)} : g \in 1..Len(sched)}

\* AppointmentCard shows the select and the two buttons.
ShowsActions(appt) == appt.status # "completed" /\ appt.status # "no-show"


(***************************************************************************)
(* Bags of outstanding calls: a function from the calls to their number.   *)
(***************************************************************************)
RECURSIVE BagTotal(_, _)
BagTotal(bag, keys) ==
    IF keys = {} THEN 0
    ELSE LET k == CHOOSE x \in keys : TRUE
         IN  bag[k] + BagTotal(bag, keys \ {k})

BagSize(bag) == BagTotal(bag, DOMAIN bag)

BagAdd(bag, k) == [bag EXCEPT ![k] = @ + 1]

BagRemove(bag, k) == [bag EXCEPT ![k] = @ - 1]

\* The values a complete call's confirmed type is drawn from when the handler
\* is driven directly: the select's labels, the empty string, a label that is
\* none of the eight.
HandlerTypes == ActiveTypes \cup {"", "C+"}

UpdateCalls == ActiveTypes \X {-1, 1}
CompleteCalls == ApptIds \X HandlerTypes

\* Calls of the dashboard that have not settled.
InFlight ==
    BagSize(pendingUpdates) + BagSize(pendingCompletes) + BagSize(pendingNoShows)
        + loadReqs + Cardinality(loadResps)

(***************************************************************************)
(* The stores (lib/firestore), from the interface section 6 gives them.    *)
(***************************************************************************)
\* updateStock(venueId, bloodType, delta): an atomic increment of the field.
storeIncrement(bloodStock, type, delta) ==
    [t \in DOMAIN bloodStock \cup {type} |->
        IF t = type THEN CountOf(bloodStock, t) + delta ELSE bloodStock[t]]

\* mark-completed, mark-no-show: the appointment's status is set.
storeSetStatus(appts, id, status) ==
    [i \in DOMAIN appts |->
        IF appts[i].id = id THEN [appts[i] EXCEPT !.status = status] ELSE appts[i]]

\* complete(apptId, venueId, confirmedType, ...): the appointment is marked
\* completed and the venue's stock of the confirmed type goes up by one.
StoreComplete(id, type) ==
    /\ storeAppts' = storeSetStatus(storeAppts, id, "completed")
    /\ storeStock' = storeIncrement(storeStock, type, 1)

\* markNoShow(apptId)
StoreNoShow(id) ==
    /\ storeAppts' = storeSetStatus(storeAppts, id, "no-show")
    /\ UNCHANGED storeStock

\* updateStock(venueId, bloodType, delta)
StoreUpdateStock(type, delta) ==
    /\ storeStock' = storeIncrement(storeStock, type, delta)
    /\ UNCHANGED storeAppts

\* The record the subscription pushes: the venue's record as it is now.
StoreSnapshot == [bloodStock |-> storeStock, found |-> TRUE]


(***************************************************************************)
(* HospitalDashboard.                                                      *)
(***************************************************************************)
\* Every state change re-renders DonationSchedule from the new state.
Render == schedule' = viewAppointments(appointments', view', search')

\* The dashboard is mounted and past "Loading Inventory..." and "inventory
\* not found".
Rendered == mounted /\ ~loading /\ inventory.found

\* The subscription callback: setInventory(data); setLoading(false).  The
\* store calls it for a subscription that is active.
InventoryPush ==
    /\ mounted /\ subs > 0
    /\ loading \/ inventory # StoreSnapshot
    /\ inventory' = StoreSnapshot
    /\ loading' = FALSE
    /\ UNCHANGED <<storeVars, appointments, activeTab, toast, schedVars,
                   callVars, cardVars, sessionVars, campVars>>

\* The two tab buttons.  Leaving the schedule tab unmounts DonationSchedule,
\* whose view and search start over when it is mounted again.
SetActiveTab(tab) ==
    /\ Rendered
    /\ activeTab' = tab
    /\ IF tab = activeTab
       THEN UNCHANGED <<view, search>>
       ELSE view' = "active" /\ search' = <<>>
    /\ UNCHANGED <<storeVars, inventory, loading, appointments, toast,
                   callVars, cardVars, sessionVars, campVars>>
    /\ Render

\* "Active / Upcoming" and "Past History".
SetView(v) ==
    /\ Rendered /\ activeTab = "schedule"
    /\ view' = v
    /\ UNCHANGED <<storeVars, dashVars, search, callVars, cardVars,
                   sessionVars, campVars>>
    /\ Render

\* The search box.
SetSearch(term) ==
    /\ Rendered /\ activeTab = "schedule"
    /\ search' = term
    /\ UNCHANGED <<storeVars, dashVars, view, callVars, cardVars,
                   sessionVars, campVars>>
    /\ Render

\* handleUpdateStock that also shows the new count before the call settles.
handleUpdateStock_Optimistic(bloodType, change) ==
    /\ pendingUpdates' = BagAdd(pendingUpdates, <<bloodType, change>>)
    /\ inventory' = [inventory EXCEPT !.bloodStock[bloodType] = @ + change]
    /\ UNCHANGED <<storeVars, loading, appointments, activeTab, toast,
                   schedVars, pendingCompletes, pendingNoShows, loadReqs,
                   loadResps, completeCalls, cardVars, sessionVars, campVars>>

\* handleUpdateStock up to its await: the call is issued.
handleUpdateStock(bloodType, change) ==
    /\ pendingUpdates' = BagAdd(pendingUpdates, <<bloodType, change>>)
    /\ UNCHANGED <<storeVars, dashVars, schedVars, pendingCompletes,
                   pendingNoShows, loadReqs, loadResps, completeCalls,
                   cardVars, sessionVars, campVars>>

\* The bound of the model on the store's count of a type: the buttons are not
\* pressed once the outstanding updates could take it out of -MaxStock..MaxStock.
StockInRange(type) ==
    LET count == CountOf(storeStock, type)
        out == BagSize(pendingUpdates)
    IN  count + out < MaxStock /\ count - out > -MaxStock

\* A press of "-" or "+" on the card of a type.
StockClick(type, change) ==
    /\ Rendered /\ activeTab = "stock"
    /\ InFlight < MaxPending
    /\ StockInRange(type)
    /\ change = -1 => ~MinusDisabled(CountOf(inventory.bloodStock, type))
    /\ handleUpdateStock(type, change)

\* handleUpdateStock whose catch issues the call again.
UpdateStockSettles_Retries(type, change, ok) ==
    /\ pendingUpdates[<<type, change>>] > 0
    /\ IF ok
       THEN /\ pendingUpdates' = BagRemove(pendingUpdates, <<type, change>>)
            /\ StoreUpdateStock(type, change)
            /\ toast' = "Stock updated"
       ELSE /\ UNCHANGED pendingUpdates
            /\ UNCHANGED storeVars
            /\ toast' = "Failed to update stock"
    /\ UNCHANGED <<inventory, loading, appointments, activeTab, schedVars,
                   pendingCompletes, pendingNoShows, loadReqs, loadResps,
                   completeCalls, cardVars, sessionVars, campVars>>

\* handleUpdateStock after its await: the store has applied the update, or
\* the call has failed.
UpdateStockSettles(type, change, ok) ==
    /\ pendingUpdates[<<type, change>>] > 0
    /\ pendingUpdates' = BagRemove(pendingUpdates, <<type, change>>)
    /\ IF ok
       THEN StoreUpdateStock(type, change) /\ toast' = "Stock updated"
       ELSE UNCHANGED storeVars /\ toast' = "Failed to update stock"
    /\ UNCHANGED <<inventory, loading, appointments, activeTab, schedVars,
                   pendingCompletes, pendingNoShows, loadReqs, loadResps,
                   completeCalls, cardVars, sessionVars, campVars>>

\* handleCompleteAppointment up to its await.  confirmed is the answer to
\* window.confirm.
handleCompleteAppointment(appt, confirmedBloodType, confirmed) ==
    IF confirmedBloodType = ""
    THEN /\ toast' = "Please select the collected blood type."
         /\ UNCHANGED <<storeVars, inventory, loading, appointments, activeTab,
                        schedVars, callVars, cardVars, sessionVars, campVars>>
    ELSE IF ~confirmed
    THEN UNCHANGED vars
    ELSE IF ~inventory.found
    THEN \* inventory.hospitalName throws inside the try
         /\ toast' = "Failed to complete appointment."
         /\ UNCHANGED <<storeVars, inventory, loading, appointments, activeTab,
                        schedVars, callVars, cardVars, sessionVars, campVars>>
    ELSE /\ pendingCompletes' =
                BagAdd(pendingCompletes, <<appt.id, confirmedBloodType>>)
         /\ completeCalls' = [completeCalls EXCEPT ![appt.id] = @ + 1]
         /\ UNCHANGED <<storeVars, dashVars, schedVars, pendingUpdates,
                        pendingNoShows, loadReqs, loadResps, cardVars,
                        sessionVars, campVars>>

\* A press of "Mark Completed" on a card, with the type the select shows.
CompleteClick(appt, selectedType, confirmed) ==
    /\ Rendered /\ activeTab = "schedule"
    /\ appt \in OnScreen(schedule) /\ ShowsActions(appt)
    /\ InFlight < MaxPending /\ completeCalls[appt.id] < MaxCalls
    /\ handleCompleteAppointment(appt, selectedType, confirmed)

\* loadAppointments up to its await.  Its currentUser is the one of the
\* render the handler or effect calling it was made in, which is set.
loadAppointments == loadReqs' = loadReqs + 1

\* handleCompleteAppointment after its await.
CompleteSettles(id, type, ok) ==
    /\ pendingCompletes[<<id, type>>] > 0
    /\ pendingCompletes' = BagRemove(pendingCompletes, <<id, type>>)
    /\ IF ok
       THEN /\ StoreComplete(id, type)
            /\ toast' = "Donation recorded successfully!"
            /\ loadAppointments
       ELSE /\ UNCHANGED storeVars
            /\ toast' = "Failed to complete appointment."
            /\ UNCHANGED loadReqs
    /\ UNCHANGED <<inventory, loading, appointments, activeTab, schedVars,
                   pendingUpdates, pendingNoShows, loadResps, completeCalls,
                   cardVars, sessionVars, campVars>>

\* handleNoShow that also takes a unit of the first type out of the stock.
handleNoShow_TakesStock(apptId, confirmed) ==
    IF ~confirmed
    THEN UNCHANGED vars
    ELSE /\ pendingNoShows' = BagAdd(pendingNoShows, apptId)
         /\ pendingUpdates' = BagAdd(pendingUpdates, <<BloodTypes[1], -1>>)
         /\ UNCHANGED <<storeVars, dashVars, schedVars, pendingCompletes,
                        loadReqs, loadResps, completeCalls, cardVars,
                        sessionVars, campVars>>

\* handleNoShow up to its await.
handleNoShow(apptId, confirmed) ==
    IF ~confirmed
    THEN UNCHANGED vars
    ELSE /\ pendingNoShows' = BagAdd(pendingNoShows, apptId)
         /\ UNCHANGED <<storeVars, dashVars, schedVars, pendingUpdates,
                        pendingCompletes, loadReqs, loadResps, completeCalls,
                        cardVars, sessionVars, campVars>>

\* A press of "Mark No-Show" on a card.
NoShowClick(appt, confirmed) ==
    /\ Rendered /\ activeTab = "schedule"
    /\ appt \in OnScreen(schedule) /\ ShowsActions(appt)
    /\ InFlight < MaxPending
    /\ handleNoShow(appt.id, confirmed)

\* handleNoShow after its await.
NoShowSettles(id, ok) ==
    /\ pendingNoShows[id] > 0
    /\ pendingNoShows' = BagRemove(pendingNoShows, id)
    /\ IF ok
       THEN /\ StoreNoShow(id)
            /\ toast' = "Marked as No-Show"
            /\ loadAppointments
       ELSE /\ UNCHANGED storeVars
            /\ toast' = "Failed to update status"
            /\ UNCHANGED loadReqs
    /\ UNCHANGED <<inventory, loading, appointments, activeTab, schedVars,
                   pendingUpdates, pendingCompletes, loadResps, completeCalls,
                   cardVars, sessionVars, campVars>>

\* getVenueAppointments is answered by the store with the list as it is now,
\* or fails (the catch of loadAppointments only logs).
LoadAnswered(ok) ==
    /\ loadReqs > 0
    /\ loadReqs' = loadReqs - 1
    /\ loadResps' = IF ok THEN loadResps \cup {storeAppts} ELSE loadResps
    /\ UNCHANGED <<storeVars, dashVars, schedVars, pendingUpdates,
                   pendingCompletes, pendingNoShows, completeCalls, cardVars,
                   sessionVars,
                   campVars>>

\* loadAppointments after its await: setAppointments(data), which does
\* nothing once the dashboard is unmounted.
LoadSettles(data) ==
    /\ data \in loadResps
    /\ loadResps' = loadResps \ {data}
    /\ appointments' = IF mounted THEN data ELSE appointments
    /\ UNCHANGED <<storeVars, inventory, loading, activeTab, toast, view, search,
                   pendingUpdates, pendingCompletes, pendingNoShows, loadReqs,
                   completeCalls, cardVars, sessionVars, campVars>>
    /\ Render


(***************************************************************************)
(* The states the components start in.                                     *)
(***************************************************************************)
\* The stores as they are found, and the dashboard's state as useState
\* creates it.
DashboardFresh ==
    /\ storeStock = [t \in BloodTypeSet |-> 0]
    /\ storeAppts = Booked
    /\ inventory = NoInventory
    /\ loading = TRUE
    /\ appointments = <<>>
    /\ activeTab = "stock"
    /\ toast = ""
    /\ view = "active"
    /\ search = <<>>
    /\ schedule = viewAppointments(<<>>, "active", <<>>)
    /\ pendingUpdates = [c \in UpdateCalls |-> 0]
    /\ pendingCompletes = [c \in CompleteCalls |-> 0]
    /\ pendingNoShows = [i \in ApptIds |-> 0]
    /\ loadResps = {}
    /\ completeCalls = [i \in ApptIds |-> 0]

\* The dashboard, mounted for a signed-in venue: the effect has subscribed
\* to the inventory and issued the first loadAppointments.
DashboardInit ==
    /\ DashboardFresh
    /\ loadReqs = 1
    /\ mounted = TRUE
    /\ subs = 1

\* The dashboard not mounted.
DashboardIdle ==
    /\ DashboardFresh
    /\ loadReqs = 0
    /\ mounted = FALSE
    /\ subs = 0

\* AuthProvider after one auth state, a signed-in user whose role was found,
\* has been delivered and its callback has finished.
SignedIn(user) ==
    /\ currentUser = user
    /\ userRole = RoleOf(user)
    /\ authLoading = FALSE
    /\ authPending = [u \in Users |-> 0]
    /\ authLast = user
    /\ authEvents = 1

\* The map picker and the form around it, as useState creates them.
MapIdle ==
    /\ position = NewYork
    /\ pickerAddress = <<>>
    /\ coordinates = NewYork
    /\ address = <<>>
    /\ picks = <<>>
    /\ lookups = {}
    /\ deliveries = <<>>

\* A stock card not yet looked at.
CardIdle ==
    /\ cardCount = 0
    /\ cardStatus = StockStatus(0)

\* No call of the portal is outstanding.
CampCallsIdle ==
    /\ submitting = FALSE
    /\ message = ""
    /\ addPending = [d \in CampDates |-> 0]
    /\ campLoadReqs = 0

\* The organizer portal not yet opened.
PortalIdle ==
    /\ campStore = <<>>
    /\ campData = <<>>
    /\ today = <<>>
    /\ camps = <<>>
    /\ CampCallsIdle
    /\ MapIdle

Init == DashboardInit /\ CardIdle /\ PortalIdle /\ SignedIn("venue1")

Next ==
    \/ InventoryPush
    \/ \E tab \in {"stock", "schedule"} : SetActiveTab(tab)
    \/ \E v \in {"active", "past"} : SetView(v)
    \/ \E type \in ActiveTypes, change \in {-1, 1} : StockClick(type, change)
    \/ \E type \in ActiveTypes, change \in {-1, 1}, ok \in BOOLEAN :
            UpdateStockSettles(type, change, ok)
    \/ \E appt \in OnScreen(schedule), type \in ActiveTypes, confirmed \in BOOLEAN :
            CompleteClick(appt, type, confirmed)
    \/ \E id \in ApptIds, type \in HandlerTypes, ok \in BOOLEAN :
            CompleteSettles(id, type, ok)
    \/ \E appt \in OnScreen(schedule), confirmed \in BOOLEAN :
            NoShowClick(appt, confirmed)
    \/ \E id \in ApptIds, ok \in BOOLEAN : NoShowSettles(id, ok)
    \/ \E ok \in BOOLEAN : LoadAnswered(ok)
    \/ \E data \in loadResps : LoadSettles(data)

Spec == Init /\ [][Next]_vars


(***************************************************************************)
(* The dashboard with handleCompleteAppointment also driven directly, with *)
(* any confirmed type: the contract of the handler itself, without the     *)
(* select of AppointmentCard in front of it.                               *)
(***************************************************************************)
DirectComplete(appt, confirmedBloodType) ==
    /\ InFlight < MaxPending /\ completeCalls[appt.id] < MaxCalls
    /\ handleCompleteAppointment(appt, confirmedBloodType, TRUE)

NextHandler ==
    \/ Next
    \/ \E i \in 1..Len(appointments), type \in HandlerTypes :
            DirectComplete(appointments[i], type)

SpecHandler == Init /\ [][NextHandler]_vars

(***************************************************************************)
(* Claims about the stock and the appointment workflow.                    *)
(***************************************************************************)
Terminal == {"completed", "no-show"}

\* The store's status of an appointment.
StatusOf(appts, id) ==
    LET i == CHOOSE k \in DOMAIN appts : appts[k].id = id
    IN  appts[i].status

\* A complete or no-show call for the appointment settles in this step.
SettlesFor(id) ==
    \/ pendingNoShows'[id] < pendingNoShows[id]
    \/ \E t \in HandlerTypes : pendingCompletes'[<<id, t>>] < pendingCompletes[<<id, t>>]

\* C1: no blood-type count of the venue's inventory is ever negative, in the
\* store or on the dashboard, whatever the user presses and whenever the
\* pushes arrive.
C1_NoNegativeCount ==
    /\ \A t \in DOMAIN storeStock : storeStock[t] >= 0
    /\ \A t \in BloodTypeSet : CountOf(inventory.bloodStock, t) >= 0

\* C2: for one appointment id, at most one completion call is ever issued to
\* the store (so its donation is counted into the stock at most once).
C2_OneCompletionCall == \A id \in ApptIds : completeCalls[id] <= 1

\* C3: a complete or no-show call that settles on an appointment the store
\* already holds as completed or no-show is rejected: the appointments and
\* the stock stay as they are and the user is shown a failure.
C3_TerminalRejected ==
    [][\A id \in ApptIds :
          (StatusOf(storeAppts, id) \in Terminal /\ SettlesFor(id))
              => /\ storeAppts' = storeAppts
                 /\ storeStock' = storeStock
                 /\ toast' \in {"Failed to complete appointment.",
                                "Failed to update status"}]_vars

\* C4: an appointment's status changes only from scheduled, and only to
\* completed or no-show; it never leaves completed or no-show.
C4_TransitionsOnlyFromScheduled ==
    [][\A id \in ApptIds :
          StatusOf(storeAppts', id) # StatusOf(storeAppts, id)
              => /\ StatusOf(storeAppts, id) = "scheduled"
                 /\ StatusOf(storeAppts', id) \in Terminal]_vars

\* C5: a stock update of delta that settles on a current count c is rejected
\* with nothing changed when c + delta < 0, and otherwise, when it is
\* reported as done, has made the count exactly c + delta.
C5_ApplyDelta ==
    [][\A call \in UpdateCalls :
          pendingUpdates'[call] < pendingUpdates[call]
              => LET c == CountOf(storeStock, call[1])
                     delta == call[2]
                 IN  IF c + delta < 0
                     THEN storeStock' = storeStock /\ toast' # "Stock updated"
                     ELSE toast' = "Stock updated"
                              => CountOf(storeStock', call[1]) = c + delta]_vars

CardCounts == (-MaxStock)..MaxCount

\* StockCard({ type, count, onUpdate })
StockCard(count) ==
    /\ cardCount' = count
    /\ cardStatus' = StockStatus(count)
    /\ UNCHANGED <<storeVars, dashVars, schedVars, callVars, campVars,
                   sessionVars>>

InitCard ==
    DashboardInit /\ CardIdle /\ PortalIdle /\ SignedIn("venue1")

NextCard == \E count \in CardCounts : StockCard(count)

SpecCard == InitCard /\ [][NextCard]_vars

\* C7: for a count >= 0 the status is critical exactly at 0, low exactly
\* from 1 to 4 and normal exactly from 5 on, so exactly one of the three.
C7_StatusBands ==
    cardCount >= 0 =>
        /\ cardStatus \in {"critical", "low", "normal"}
        /\ cardStatus = "critical" <=> cardCount = 0
        /\ cardStatus = "low" <=> (0 < cardCount /\ cardCount < 5)
        /\ cardStatus = "normal" <=> cardCount >= 5

\* C7's boundary: a card with count 4, shown as low.
C7_Witness == cardCount = 4 /\ cardStatus = "low"

(***************************************************************************)
(* DonationSchedule handed any short appointment list.                     *)
(***************************************************************************)
ViewNames == {Jane, ANN}
ViewDates == {Date0601, Date0530}
SearchTerms == {<<>>, <<"j", "a", "n">>, <<"A", "n">>}

\* The list of n appointments with the names, dates and statuses f gives, the
\* id of each its position.
ViewList(n, f) ==
    [i \in 1..n |->
        [id |-> i, donorName |-> f[i][1], date |-> f[i][2], status |-> f[i][3]]]

InitView ==
    /\ storeStock = [t \in BloodTypeSet |-> 0]
    /\ \E n \in 0..MaxList :
          \E f \in [1..n -> ViewNames \X ViewDates \X Statuses] :
              appointments = ViewList(n, f)
    /\ storeAppts = appointments
    /\ inventory = StoreSnapshot
    /\ loading = FALSE
    /\ activeTab = "schedule"
    /\ toast = ""
    /\ view = "active"
    /\ search = <<>>
    /\ schedule = viewAppointments(appointments, view, search)
    /\ pendingUpdates = [c \in UpdateCalls |-> 0]
    /\ pendingCompletes = [c \in CompleteCalls |-> 0]
    /\ pendingNoShows = [i \in ApptIds |-> 0]
    /\ loadReqs = 0
    /\ loadResps = {}
    /\ completeCalls = [i \in ApptIds |-> 0]
    /\ mounted = TRUE
    /\ subs = 1
    /\ SignedIn("venue1")
    /\ CardIdle
    /\ PortalIdle

NextView ==
    \/ \E v \in {"active", "past"} : SetView(v)
    \/ \E term \in SearchTerms : SetSearch(term)

SpecView == InitView /\ [][NextView]_vars


\* Two characters that are the same letter, whatever their case.
SameLetter(a, b) ==
    \/ a = b
    \/ {a, b} \in {{"A", "a"}, {"E", "e"}, {"J", "j"}, {"N", "n"}}

\* term occurs in name as a substring, the case of the letters ignored.
ContainsIgnoringCase(name, term) ==
    \E off \in 0..(Len(name) - Len(term)) :
        \A i \in 1..Len(term) : SameLetter(name[off + i], term[i])

\* The appointments of the list the view selects.
InView(all, v) ==
    {all[i] : i \in {k \in 1..Len(all) :
        IF v = "active" THEN all[k].status = "scheduled"
        ELSE all[k].status \in {"completed", "no-show"}}}

\* The appointments viewAppointments is to return.
Matching(all, v, term) ==
    {a \in InView(all, v) : ContainsIgnoringCase(a.donorName, term)}

\* How many entries of the rendered schedule are the appointment a.
Occurrences(sched, a) ==
    Cardinality({<<g, i>> \in (1..Len(sched)) \X (1..MaxList + 1) :
        i <= Len(sched[g].appts) /\ sched[g].appts[i] = a})

\* C8: the schedule shows exactly the appointments of the list that match
\* the view and whose donor name contains the search term, case ignored; an
\* empty term hides no appointment of the view.
C8_ExactlyTheMatching ==
    /\ OnScreen(schedule) = Matching(appointments, view, search)
    /\ search = <<>> => OnScreen(schedule) = InView(appointments, view)

\* C8's case: the past view searched for "jan", which shows a donor, hides
\* another past donor by name and hides a scheduled Jane by status.
C8_Witness ==
    /\ view = "past" /\ search = <<"j", "a", "n">>
    /\ \E a \in OnScreen(schedule) : a.donorName = Jane
    /\ \E i \in 1..Len(appointments) :
          appointments[i].status # "scheduled" /\ appointments[i].donorName = ANN
    /\ \E i \in 1..Len(appointments) :
          appointments[i].status = "scheduled" /\ appointments[i].donorName = Jane

\* The ISO date a is before the ISO date b: at the first place they differ,
\* a has the smaller digit.
DateBefore(a, b) ==
    \E k \in 1..10 :
        /\ \A i \in 1..(k - 1) : a[i] = b[i]
        /\ CharCode(a[k]) < CharCode(b[k])

\* C9: every matching appointment is in exactly one group, the group of its
\* own date; within a group the appointments keep the order of the list; the
\* groups come in ascending order of their date strings.
C9_GroupedByDate ==
    /\ \A a \in Matching(appointments, view, search) : Occurrences(schedule, a) = 1
    /\ \A g \in 1..Len(schedule) :
          /\ schedule[g].appts # <<>>
          /\ \A i \in 1..Len(schedule[g].appts) :
                schedule[g].appts[i].date = schedule[g].date
          /\ \A i, j \in 1..Len(schedule[g].appts) :
                i < j => schedule[g].appts[i].id < schedule[g].appts[j].id
    /\ \A g, h \in 1..Len(schedule) :
          g < h => DateBefore(schedule[g].date, schedule[h].date)

\* C9's case: a list whose first appointment has the later date, shown as two
\* groups, one of them with two appointments.
C9_Witness ==
    /\ view = "past"
    /\ Len(schedule) = 2
    /\ \E g \in 1..2 : Len(schedule[g].appts) = 2
    /\ Len(appointments) = 3
    /\ DateBefore(appointments[2].date, appointments[1].date)
    /\ appointments[1] \in OnScreen(schedule)
    /\ appointments[2] \in OnScreen(schedule)


(***************************************************************************)
(* OrganizerPortal: the list of upcoming camps.                            *)
(***************************************************************************)
Digit(c) == CharCode(c) - 48

\* new Date("YYYY-MM-DD"): the date's UTC midnight, counted here in days
\* since 1970-01-01 (the code's milliseconds are 86400000 times this, so the
\* sign of a difference is the same).
DateValue(date) ==
    LET year == 1000 * Digit(date[1]) + 100 * Digit(date[2])
                    + 10 * Digit(date[3]) + Digit(date[4])
        month == 10 * Digit(date[6]) + Digit(date[7])
        day == 10 * Digit(date[9]) + Digit(date[10])
        y == IF month <= 2 THEN year - 1 ELSE year
        era == y \div 400
        yoe == y - era * 400
        mp == IF month > 2 THEN month - 3 ELSE month + 9
        doy == (153 * mp + 2) \div 5 + day - 1
        doe == yoe * 365 + yoe \div 4 - yoe \div 100 + doy
    IN  era * 146097 + doe - 719468

\* isUpcoming with > for >=.
isUpcoming_Strict(camp, day) == StrLess(day, camp.date)

\* camp => camp.date >= today
isUpcoming(camp, day) == StrGeq(camp.date, day)

\* (a, b) => new Date(a.date) - new Date(b.date)
byDate(a, b) == DateValue(a.date) - DateValue(b.date)

RECURSIVE InsertCamp(_, _)
\* seq is sorted; x goes before the first element the comparator puts after it.
InsertCamp(seq, x) ==
    IF seq = <<>> THEN <<x>>
    ELSE IF byDate(seq[1], x) > 0 THEN <<x>> \o seq
    ELSE <<seq[1]>> \o InsertCamp(Tail(seq), x)

RECURSIVE SortCamps(_)
\* Array.prototype.sort(compare): stable.
SortCamps(seq) ==
    IF seq = <<>> THEN <<>>
    ELSE InsertCamp(SortCamps(SubSeq(seq, 1, Len(seq) - 1)), seq[Len(seq)])

\* data.filter(...).sort(...)
upcomingCamps(data, day) ==
    SortCamps(SelectSeq(data, LAMBDA camp : isUpcoming(camp, day)))

\* loadCamps up to its await: getDonationCamps is called.
loadCamps == campLoadReqs' = campLoadReqs + 1

\* getDonationCamps settles on the UTC day `now` and loadCamps goes on: the
\* store's list, filtered and sorted, or a line on the console.
loadCampsSettles(ok, now) ==
    /\ campLoadReqs > 0
    /\ campLoadReqs' = campLoadReqs - 1
    /\ IF ok
       THEN /\ campData' = campStore
            /\ today' = now
            /\ camps' = upcomingCamps(campData', today')
       ELSE UNCHANGED <<campData, today, camps>>
    /\ UNCHANGED <<storeVars, dashVars, schedVars, callVars, cardVars,
                   campStore, submitting, message, addPending, authVars,
                   lifeVars, mapVars>>

\* The effect that runs when the portal is opened, or opened again.
OpenPortal ==
    /\ campLoadReqs = 0
    /\ IF currentUser # NoUser THEN loadCamps ELSE UNCHANGED campLoadReqs
    /\ UNCHANGED <<storeVars, dashVars, schedVars, callVars, cardVars,
                   campVars, submitting, message, addPending, authVars,
                   lifeVars, mapVars>>

\* handleAddCamp up to its await, with the form's date: the form is rendered
\* for a signed-in user and its button is disabled while loading.
handleAddCamp(date) ==
    /\ currentUser # NoUser
    /\ ~submitting
    /\ Len(campStore) < MaxCamps
    /\ submitting' = TRUE
    /\ addPending' = BagAdd(addPending, date)
    /\ UNCHANGED <<storeVars, dashVars, schedVars, callVars, cardVars,
                   campVars, message, campLoadReqs, authVars, lifeVars,
                   mapVars>>

\* addDonationCamp settles and handleAddCamp goes on: the camp is in the
\* store, the form is reset and the list is loaded again; or the error line.
AddCampSettles(date, ok) ==
    /\ addPending[date] > 0
    /\ addPending' = BagRemove(addPending, date)
    /\ IF ok
       THEN /\ campStore' =
                   Append(campStore, [id |-> Len(campStore) + 1, date |-> date])
            /\ message' = "Donation camp added successfully!"
            /\ address' = <<>>
            /\ loadCamps
       ELSE /\ message' = "Error adding camp. Please try again."
            /\ UNCHANGED <<campStore, address, campLoadReqs>>
    /\ submitting' = FALSE
    /\ UNCHANGED <<storeVars, dashVars, schedVars, callVars, cardVars,
                   campData, today, camps, authVars, lifeVars, position,
                   pickerAddress, coordinates, picks, lookups, deliveries>>

\* setTimeout(() => setMessage(''), 3000)
MessageTimeout ==
    /\ message = "Donation camp added successfully!"
    /\ message' = ""
    /\ UNCHANGED <<storeVars, dashVars, schedVars, callVars, cardVars,
                   campVars, submitting, addPending, campLoadReqs, authVars,
                   lifeVars, mapVars>>

\* The list of n camps with the dates f gives, the id of each its position.
CampList(n, f) == [i \in 1..n |-> [id |-> i, date |-> f[i]]]

InitCamps ==
    /\ DashboardIdle
    /\ CardIdle
    /\ SignedIn("org1")
    /\ CampCallsIdle
    /\ MapIdle
    /\ \E n \in 0..MaxCamps :
          \E f \in [1..n -> CampDates] : campStore = CampList(n, f)
    /\ campData = <<>>
    /\ today = <<>>
    /\ camps = <<>>

NextCamps ==
    \/ OpenPortal
    \/ \E date \in CampDates : handleAddCamp(date)
    \/ \E date \in CampDates, ok \in BOOLEAN : AddCampSettles(date, ok)
    \/ \E ok \in BOOLEAN, now \in CampDates : loadCampsSettles(ok, now)
    \/ MessageTimeout

SpecCamps == InitCamps /\ [][NextCamps]_vars

\* An ISO date as the number YYYYMMDD.
DateNumber(date) ==
    10000000 * Digit(date[1]) + 1000000 * Digit(date[2]) + 100000 * Digit(date[3])
        + 10000 * Digit(date[4]) + 1000 * Digit(date[6]) + 100 * Digit(date[7])
        + 10 * Digit(date[9]) + Digit(date[10])

\* C10: once loaded, the list holds exactly the camps of the loaded data that
\* are dated today or later, each once, in ascending order of date.
C10_UpcomingCamps ==
    today # <<>> =>
        /\ {camps[i] : i \in 1..Len(camps)}
              = {campData[i] : i \in {k \in 1..Len(campData) :
                    DateNumber(campData[k].date) >= DateNumber(today)}}
        /\ \A i, j \in 1..Len(camps) : i < j => camps[i] # camps[j]
        /\ \A i, j \in 1..Len(camps) :
              i < j => DateNumber(camps[i].date) <= DateNumber(camps[j].date)

\* C10's case: loaded on 2024-06-01 from data that holds a camp of 2024-05-30,
\* left out, and a later camp listed before a camp of 2024-06-01, both kept.
C10_Witness ==
    /\ today = Date0601
    /\ \E i \in 1..Len(campData) : campData[i].date = Date0530
    /\ \E i, j \in 1..Len(campData) :
          i < j /\ campData[i].date = Date0602 /\ campData[j].date = Date0601
    /\ Len(camps) >= 2
    /\ camps[1].date = Date0601


(***************************************************************************)
(* The life of the mounted dashboard: the effect of HospitalDashboard and  *)
(* its cleanup.                                                            *)
(***************************************************************************)
\* The handle subscribeToHospitalInventory returned is called: one
\* subscription fewer is active.
unsubscribe(n) == IF n > 0 THEN n - 1 ELSE 0

\* effectCleanup that keeps the subscription.
effectCleanup_KeepsSubscription(n) == n

\* return () => unsubscribe(): the active subscriptions after the cleanup.
effectCleanup(n) == unsubscribe(n)

\* AuthProvider hands a new currentUser to a mounted dashboard: the cleanup
\* of the last effect runs, then the effect again; without a user it
\* navigates to /login, and the dashboard is unmounted.
ContextChanged(user) ==
    IF mounted /\ user # currentUser
    THEN IF user = NoUser
         THEN /\ mounted' = FALSE
              /\ subs' = effectCleanup(subs)
              /\ UNCHANGED loadReqs
         ELSE /\ mounted' = TRUE
              /\ subs' = effectCleanup(subs) + 1
              /\ loadAppointments
    ELSE UNCHANGED <<mounted, subs, loadReqs>>

\* The user navigates away from the dashboard: it is unmounted and the
\* cleanup of its effect runs.
NavigateAway ==
    /\ mounted
    /\ mounted' = FALSE
    /\ subs' = effectCleanup(subs)
    /\ UNCHANGED <<storeVars, dashVars, schedVars, callVars, cardVars,
                   campVars, authVars, mapVars, campCallVars>>


(***************************************************************************)
(* AuthProvider: the callback given to onAuthStateChanged.                 *)
(***************************************************************************)
AuthStates == Users \cup {NoUser}

\* What getUserProfile can settle with: the profile, no profile, an error.
ProfileOutcomes == {"found", "missing", "failed"}

\* The auth service delivers an auth state and the callback runs up to its
\* await, or to its end when the state is null.
AuthDeliver(user) ==
    /\ authEvents < MaxAuthEvents
    /\ user # authLast
    /\ authEvents' = authEvents + 1
    /\ authLast' = user
    /\ IF user # NoUser
       THEN /\ authPending' = BagAdd(authPending, user)
            /\ UNCHANGED <<currentUser, userRole, authLoading, mounted, subs,
                           loadReqs>>
       ELSE /\ currentUser' = null
            /\ userRole' = null
            /\ authLoading' = FALSE
            /\ ContextChanged(NoUser)
            /\ UNCHANGED authPending
    /\ UNCHANGED <<storeVars, dashVars, schedVars, pendingUpdates,
                   pendingCompletes, pendingNoShows, loadResps, completeCalls,
                   cardVars, campVars, mapVars, campCallVars>>

\* profile?.role, or the null of the catch.
roleFrom(user, outcome) ==
    CASE outcome = "found" -> RoleOf(user)
      [] outcome = "missing" -> undefined
      [] outcome = "failed" -> null

\* getUserProfile settles and the callback goes on to its end.
ProfileSettles(user, outcome) ==
    /\ authPending[user] > 0
    /\ authPending' = BagRemove(authPending, user)
    /\ userRole' = roleFrom(user, outcome)
    /\ currentUser' = user
    /\ authLoading' = FALSE
    /\ ContextChanged(user)
    /\ UNCHANGED <<authLast, authEvents>>
    /\ UNCHANGED <<storeVars, dashVars, schedVars, pendingUpdates,
                   pendingCompletes, pendingNoShows, loadResps, completeCalls,
                   cardVars, campVars, mapVars, campCallVars>>

\* AuthProvider as it is mounted: nothing delivered yet.
AuthFresh ==
    /\ currentUser = null
    /\ userRole = null
    /\ authLoading = TRUE
    /\ authPending = [u \in Users |-> 0]
    /\ authLast = "none"
    /\ authEvents = 0

InitAuth == DashboardIdle /\ CardIdle /\ PortalIdle /\ AuthFresh

NextAuth ==
    \/ \E user \in AuthStates : AuthDeliver(user)
    \/ \E user \in Users, outcome \in ProfileOutcomes :
            ProfileSettles(user, outcome)

SpecAuth == InitAuth /\ [][NextAuth]_vars

\* No callback of onAuthStateChanged is waiting for its role lookup.
NoCallbackPending == \A u \in Users : authPending[u] = 0

\* C18: the auth state delivered last wins.  Whenever no callback is
\* pending, currentUser is the state delivered last (null after a sign-out,
\* whatever lookup was pending when it came), and a null currentUser has a
\* null userRole.
C18_LastAuthStateWins ==
    (NoCallbackPending /\ authEvents > 0) =>
        /\ currentUser = authLast
        /\ (currentUser = null => userRole \in {null, undefined})


(***************************************************************************)
(* LocationPickerMap, and handleLocationSelect of the form around it.      *)
(***************************************************************************)
DigitChars == <<"0", "1", "2", "3", "4", "5", "6", "7", "8", "9">>

RECURSIVE IntegerDigits(_)
\* The decimal digits of a natural number, without leading zeros.
IntegerDigits(n) ==
    IF n < 10 THEN <<DigitChars[n + 1]>>
    ELSE IntegerDigits(n \div 10) \o <<DigitChars[(n % 10) + 1]>>

RECURSIVE FractionDigits(_, _)
\* The digits of f, a number of `unit`ths below one unit, with no trailing
\* zeros.
FractionDigits(f, unit) ==
    IF f = 0 THEN <<>>
    ELSE <<DigitChars[((f * 10) \div unit) + 1]>>
            \o FractionDigits((f * 10) % unit, unit)

\* `${n}`: the number as the template literal writes it.
NumberToString(n) ==
    LET abs == IF n < 0 THEN 0 - n ELSE n
        fraction == FractionDigits(abs % 10000, 10000)
    IN  (IF n < 0 THEN <<"-">> ELSE <<>>)
            \o IntegerDigits(abs \div 10000)
            \o (IF fraction = <<>> THEN <<>> ELSE <<".">> \o fraction)

\* `${lat}, ${lng}`
CoordinateLabel(lat, lng) ==
    NumberToString(lat) \o <<",", " ">> \o NumberToString(lng)

\* What a reverse lookup can settle with: a body with a display_name, a
\* body without one, or an error of the network or of the parsing.
LookupOutcomes == {"named", "unnamed", "failed"}

\* The names the geocoding service answers with, and the search labels.
DisplayNames == {<<"C", "i", "t", "y">>, <<"S", "e", "a">>}

\* fetchAddress that reports no address when the lookup throws.
fetchAddressResult_NoFallback(lat, lng, outcome, name) ==
    CASE outcome = "named" -> [lat |-> lat, lng |-> lng, address |-> name]
      [] outcome = "unnamed" ->
            [lat |-> lat, lng |-> lng, address |-> CoordinateLabel(lat, lng)]
      [] outcome = "failed" -> [lat |-> lat, lng |-> lng, address |-> <<>>]

\* The locationData fetchAddress hands to onLocationSelect.
fetchAddressResult(lat, lng, outcome, name) ==
    CASE outcome = "named" -> [lat |-> lat, lng |-> lng, address |-> name]
      [] outcome = "unnamed" ->
            [lat |-> lat, lng |-> lng, address |-> CoordinateLabel(lat, lng)]
      [] outcome = "failed" ->
            [lat |-> lat, lng |-> lng, address |-> CoordinateLabel(lat, lng)]

\* handleLocationSelect of OrganizerPortal, the onLocationSelect prop.
handleLocationSelect(locationData) ==
    /\ coordinates' = [lat |-> locationData.lat, lng |-> locationData.lng]
    /\ address' = IF locationData.address # <<>>
                  THEN locationData.address
                  ELSE address

\* fetchAddress up to its await: the lookup of a new pick is in flight.
fetchAddress(place) ==
    /\ Len(picks) < MaxPicks
    /\ picks' = Append(picks, place)
    /\ lookups' = lookups \cup {Len(picks) + 1}

\* A click on the map: MapClickHandler moves the marker, handleMapClick
\* starts the lookup.
handleMapClick(newPos) ==
    /\ position' = newPos
    /\ fetchAddress(newPos)
    /\ UNCHANGED <<storeVars, dashVars, schedVars, callVars, cardVars,
                   campVars, authVars, lifeVars, campCallVars, pickerAddress,
                   coordinates, address, deliveries>>

\* The marker is dropped: DraggableMarker moves it, handleDragEnd starts
\* the lookup.
handleDragEnd(newPos) ==
    /\ newPos # position
    /\ position' = newPos
    /\ fetchAddress(newPos)
    /\ UNCHANGED <<storeVars, dashVars, schedVars, callVars, cardVars,
                   campVars, authVars, lifeVars, campCallVars, pickerAddress,
                   coordinates, address, deliveries>>

\* The lookup of pick i settles and fetchAddress goes on to its end.
fetchAddressSettles(i, outcome, name) ==
    /\ i \in lookups
    /\ lookups' = lookups \ {i}
    /\ LET locationData ==
               fetchAddressResult(picks[i].lat, picks[i].lng, outcome, name)
       IN  /\ pickerAddress' = IF outcome = "named" THEN name ELSE pickerAddress
           /\ deliveries' = Append(deliveries,
                  [pick |-> i, outcome |-> outcome, data |-> locationData])
           /\ handleLocationSelect(locationData)
    /\ UNCHANGED <<storeVars, dashVars, schedVars, callVars, cardVars,
                   campVars, authVars, lifeVars, campCallVars, position,
                   picks>>

\* A result of the search bar is shown: no lookup is needed.
handleSearchResult(newPos, label) ==
    /\ Len(picks) < MaxPicks
    /\ picks' = Append(picks, newPos)
    /\ position' = newPos
    /\ pickerAddress' = label
    /\ LET locationData ==
               [lat |-> newPos.lat, lng |-> newPos.lng, address |-> label]
       IN  /\ deliveries' = Append(deliveries,
                  [pick |-> Len(picks) + 1, outcome |-> "search",
                   data |-> locationData])
           /\ handleLocationSelect(locationData)
    /\ UNCHANGED <<storeVars, dashVars, schedVars, callVars, cardVars,
                   campVars, authVars, lifeVars, campCallVars, lookups>>

\* The portal's form, open for a signed-in organizer.
InitMap == DashboardIdle /\ CardIdle /\ PortalIdle /\ SignedIn("org1")

NextMap ==
    \/ \E newPos \in Places : handleMapClick(newPos)
    \/ \E newPos \in Places : handleDragEnd(newPos)
    \/ \E i \in lookups, outcome \in LookupOutcomes, name \in DisplayNames :
            fetchAddressSettles(i, outcome, name)
    \/ \E newPos \in Places, label \in DisplayNames :
            handleSearchResult(newPos, label)

SpecMap == InitMap /\ [][NextMap]_vars

\* The onLocationSelect calls made for pick i.
CallsFor(i) == {k \in 1..Len(deliveries) : deliveries[k].pick = i}

\* C11: a reverse lookup that fails, or answers without a display_name,
\* still delivers the selection to the form, with the coordinate picked and
\* the string "lat, lng" as its address.  Every pick has no onLocationSelect
\* call while its lookup is in flight and exactly one once it has settled,
\* and the form holds what the last call delivered.
C11_FallbackDelivered ==
    /\ \A i \in 1..Len(picks) :
          /\ Cardinality(CallsFor(i)) = IF i \in lookups THEN 0 ELSE 1
          /\ \A k \in CallsFor(i) :
                /\ deliveries[k].data.lat = picks[i].lat
                /\ deliveries[k].data.lng = picks[i].lng
                /\ deliveries[k].outcome \in {"unnamed", "failed"} =>
                      deliveries[k].data.address =
                          CoordinateLabel(picks[i].lat, picks[i].lng)
    /\ deliveries # <<>> =>
          LET last == deliveries[Len(deliveries)].data
          IN  /\ coordinates = [lat |-> last.lat, lng |-> last.lng]
              /\ address = last.address

\* A lookup has thrown and the form holds the coordinate and its string.
C11_Witness ==
    /\ deliveries # <<>>
    /\ deliveries[Len(deliveries)].outcome = "failed"
    /\ coordinates = [lat |-> 515000, lng |-> -1200]
    /\ address = <<"5", "1", ".", "5", ",", " ", "-", "0", ".", "1", "2">>

\* C12: responses out of order are tolerated.  Once every lookup has
\* settled, the form's coordinates and address are those of the most recent
\* selection.
C12_LatestSelectionWins ==
    (lookups = {} /\ picks # <<>>) =>
        /\ coordinates = picks[Len(picks)]
        /\ \E k \in CallsFor(Len(picks)) : address = deliveries[k].data.address


(***************************************************************************)
(* The dashboard over a session: the user navigates away and back, signs   *)
(* out and in again, while calls of the dashboard are in flight.           *)
(***************************************************************************)
\* The dashboard is opened by a signed-in user (AuthProvider renders its
\* children once loading is false): useState starts over and the effect
\* subscribes and loads.
Mount ==
    /\ ~mounted
    /\ ~authLoading
    /\ currentUser # NoUser
    /\ InFlight < MaxPending
    /\ mounted' = TRUE
    /\ subs' = subs + 1
    /\ loadAppointments
    /\ inventory' = NoInventory
    /\ loading' = TRUE
    /\ appointments' = <<>>
    /\ activeTab' = "stock"
    /\ view' = "active"
    /\ search' = <<>>
    /\ Render
    /\ UNCHANGED <<storeVars, toast, pendingUpdates, pendingCompletes,
                   pendingNoShows, loadResps, completeCalls, cardVars,
                   campVars, authVars, mapVars, campCallVars>>

NextSession ==
    \/ Next
    \/ NavigateAway
    \/ Mount
    \/ \E user \in {NoUser, "venue1"} : AuthDeliver(user)
    \/ ProfileSettles("venue1", "found")

SpecSession == Init /\ [][NextSession]_vars

\* C13: handleNoShow issues no stock update and leaves every blood-type
\* count unchanged: in a step where a no-show call is issued or settles, no
\* updateStock call is issued and the counts of the store and of the
\* dashboard stay as they are.
C13_NoShowLeavesStock ==
    [][pendingNoShows' # pendingNoShows =>
            /\ pendingUpdates' = pendingUpdates
            /\ storeStock' = storeStock
            /\ inventory' = inventory]_vars

\* A no-show has been recorded by the store and the dashboard has said so.
C13_Witness ==
    /\ \E id \in ApptIds : StatusOf(storeAppts, id) = "no-show"
    /\ toast = "Marked as No-Show"

\* C14: a failed stock call surfaces as an error and leaves no partial
\* state.  The displayed inventory is changed only by a push of the
\* subscription (to the store's record), never by a step of
\* handleUpdateStock; a stock call that settles without a change of the
\* store shows the error toast.
C14_FailedUpdateLeavesDisplay ==
    [][/\ inventory' # inventory => inventory' = StoreSnapshot
       /\ pendingUpdates' # pendingUpdates => inventory' = inventory
       /\ (BagSize(pendingUpdates') < BagSize(pendingUpdates)
                /\ storeStock' = storeStock)
            => toast' = "Failed to update stock"]_vars

\* A stock call has failed: the error is shown and the display is the
\* store's record.
C14_Witness ==
    /\ toast = "Failed to update stock"
    /\ Rendered
    /\ inventory = StoreSnapshot

\* C16: navigating away, or a change of the current user, unsubscribes.  At
\* most one inventory subscription is active, none once the dashboard is
\* unmounted, and the displayed inventory changes only while the dashboard
\* is mounted with its subscription active.
C16_Unsubscribed ==
    [][/\ subs' <= 1
       /\ ~mounted' => subs' = 0
       /\ inventory' # inventory => (mounted' /\ subs' = 1)]_vars

\* The dashboard is unmounted with no subscription left, and the store's
\* record has moved on from what the dashboard last showed.
C16_Witness ==
    /\ ~mounted /\ subs = 0
    /\ inventory.found
    /\ inventory # StoreSnapshot

\* C17: at most one updateStock call is outstanding at any time.
C17_OneUpdateOutstanding == BagSize(pendingUpdates) <= 1

\* A call of the dashboard or of the portal to a store is issued in this
\* step.
CallIssued ==
    \/ loadReqs' > loadReqs
    \/ BagSize(pendingUpdates') > BagSize(pendingUpdates)
    \/ BagSize(pendingCompletes') > BagSize(pendingCompletes)
    \/ BagSize(pendingNoShows') > BagSize(pendingNoShows)
    \/ subs' > subs
    \/ campLoadReqs' > campLoadReqs
    \/ BagSize(addPending') > BagSize(addPending)

\* C19: while currentUser is null neither the portal nor the dashboard
\* issues a call to a store, and the dashboard is not rendered while
\* AuthProvider is loading.
C19_SignedOutIssuesNothing ==
    [][/\ (currentUser = null /\ currentUser' = null) => ~CallIssued
       /\ mounted' => ~authLoading']_vars


(***************************************************************************)
(* The two pages, each in a session of its own: the dashboard of a venue,  *)
(* or the portal of an organizer with its form and its map.                *)
(***************************************************************************)
InitPages == Init \/ InitMap

NextPortal ==
    \/ OpenPortal
    \/ handleAddCamp(Date0601)
    \/ \E ok \in BOOLEAN : AddCampSettles(Date0601, ok)
    \/ \E ok \in BOOLEAN : loadCampsSettles(ok, Date0601)
    \/ MessageTimeout
    \/ handleMapClick([lat |-> 515000, lng |-> -1200])
    \/ \E i \in lookups, outcome \in {"named", "failed"} :
            fetchAddressSettles(i, outcome, <<"C", "i", "t", "y">>)

NextPages ==
    \/ mounted /\ Next
    \/ ~mounted /\ NextPortal

SpecPages == InitPages /\ [][NextPages]_vars

\* The operations a user action calls.
Operations == {"updateStock", "complete", "markNoShow", "addCamp", "reverse"}

\* The calls of each operation that have not settled.
Outstanding ==
    [op \in Operations |->
        CASE op = "updateStock" -> BagSize(pendingUpdates)
          [] op = "complete" -> BagSize(pendingCompletes)
          [] op = "markNoShow" -> BagSize(pendingNoShows)
          [] op = "addCamp" -> BagSize(addPending)
          [] op = "reverse" -> Cardinality(lookups)]

\* This step newly shows the failure of a call of the operation: the toast
\* or the line of its catch, or the fallback of the lookup.
FailureShown(op) ==
    CASE op = "updateStock" ->
            toast' = "Failed to update stock" /\ toast' # toast
      [] op = "complete" ->
            toast' = "Failed to complete appointment." /\ toast' # toast
      [] op = "markNoShow" ->
            toast' = "Failed to update status" /\ toast' # toast
      [] op = "addCamp" ->
            message' = "Error adding camp. Please try again."
                /\ message' # message
      [] op = "reverse" ->
            /\ Len(deliveries') > Len(deliveries)
            /\ deliveries'[Len(deliveries')].outcome \in {"unnamed", "failed"}

\* C15: no automatic retries.  A step, and so a user action, issues at most
\* one call of an operation; the step in which a call fails only settles
\* that call, it issues no call of any operation.
C15_NoAutomaticRetries ==
    [][/\ \A op \in Operations : Outstanding'[op] <= Outstanding[op] + 1
       /\ \A op \in Operations :
             FailureShown(op) =>
                /\ Outstanding'[op] = Outstanding[op] - 1
                /\ \A other \in Operations :
                      Outstanding'[other] <= Outstanding[other]
                /\ loadReqs' = loadReqs
                /\ campLoadReqs' = campLoadReqs]_vars

\* Publishing a camp has failed: the error line is shown, no call is
\* outstanding and no camp was stored.
C15_Witness ==
    /\ message = "Error adding camp. Please try again."
    /\ \A op \in Operations : Outstanding[op] = 0
    /\ campLoadReqs = 0
    /\ campStore = <<>>
====
